---- MODULE Spec2Model ----
(***************************************************************************)
(* Content data layer of the blog: pagination over the ordered post        *)
(* sequence (lib/posts), canonical URLs and metadata (lib/seo-utils), and   *)
(* the paginated route (app/page/[pageNum]/page.tsx).                       *)
(*                                                                         *)
(* Strings that are inspected character by character (paths, URLs, route   *)
(* parameters) are sequences of tokens: "/" is the slash character, every   *)
(* other token is a non-empty run of characters without a slash.  Strings   *)
(* that are only copied (titles, descriptions) are TLA+ strings.  An        *)
(* optional value is the empty sequence (undefined) or a one-element        *)
(* sequence.                                                                *)
(***************************************************************************)
EXTENDS Integers, Sequences, FiniteSets, TLC

(* corpus      the ordered posts that lib/posts loaded for this build      *)
(* envSiteUrl  process.env.NEXT_PUBLIC_SITE_URL, <<>> when unset or empty  *)
(* op          the exported function or route handler now being answered,  *)
(*             "idle" between calls                                        *)
(* args, ret   the arguments of that call and the value it returned        *)
(* documents   the parsed documents of the content directory, in directory *)
(*             order                                                       *)
(* build       "ok" once the corpus is loaded, "DuplicateSlug" when the    *)
(*             load aborted the build                                      *)
(* readers     for each concurrent reader, the query it has made and the   *)
(*             value it got                                                *)
VARIABLES corpus, envSiteUrl, op, args, ret, documents, build, readers

vars == <<corpus, envSiteUrl, op, args, ret, documents, build, readers>>

(* What no query writes: the loaded content and the configuration *)
loaded == <<corpus, envSiteUrl, documents, build>>

(* ------------------------------ bounds --------------------------------- *)

MaxPosts == 25

MaxNegPage == 2

MaxPage == 5

MaxPathLen == 4

MaxMetaPathLen == 1

MaxParamLen == 2

MaxShuffledPosts == 6

MaxBuildDay == 1

(* ------------------------------ helpers -------------------------------- *)

None == <<>>

Some(v) == <<v>>

Max(a, b) == IF a >= b THEN a ELSE b

Min(a, b) == IF a <= b THEN a ELSE b

SeqsUpTo(S, n) == UNION {[1..k -> S] : k \in 0..n}

(* String.prototype.startsWith('/') and endsWith('/') *)
startsWithSlash(s) == Len(s) > 0 /\ s[1] = "/"

endsWithSlash(s) == Len(s) > 0 /\ s[Len(s)] = "/"

(* Math.ceil(a / b) for a >= 0, b > 0 *)
MathCeilDiv(a, b) == (a + b - 1) \div b

(* Math.floor(a / b) for a >= 0, b > 0 *)
MathFloorDiv(a, b) == a \div b

(* A slice that stops one element early *)
sliceWithoutLast(arr, start, end) ==
    LET len == Len(arr)
        k == IF start < 0 THEN Max(len + start, 0) ELSE Min(start, len)
        final == IF end < 0 THEN Max(len + end, 0) ELSE Min(end, len)
        count == Max(final - k - 1, 0)
    IN [i \in 1..count |-> arr[k + i]]

(* Array.prototype.slice(start, end): negative indices count from the end, *)
(* both are clamped to 0..length, and an empty range yields [].             *)
slice(arr, start, end) ==
    LET len == Len(arr)
        k == IF start < 0 THEN Max(len + start, 0) ELSE Min(start, len)
        final == IF end < 0 THEN Max(len + end, 0) ELSE Min(end, len)
        count == Max(final - k, 0)
    IN [i \in 1..count |-> arr[k + i]]

(* ---------------------------- site config ------------------------------ *)

postsPerPage == 10

LocalhostUrl == <<"http:", "/", "/", "localhost:3000">>

ExampleUrl == <<"https:", "/", "/", "example.com">>

(* NEXT_PUBLIC_SITE_URL: unset (or empty), a URL, a URL with a trailing slash *)
EnvSiteUrls == {<<>>, ExampleUrl, ExampleUrl \o <<"/">>}

SITE_CONFIG ==
    [title |-> "Long Nguyen blog",
     description |-> "Personal blog by Long Nguyen",
     author |-> "Long Nguyen",
     url |-> IF envSiteUrl # <<>> THEN envSiteUrl ELSE LocalhostUrl,
     postsPerPage |-> postsPerPage]

(* ------------------------------- posts --------------------------------- *)

(* The i-th document of a corpus of n documents, newest first.  The       *)
(* category is optional: every second document declares one.              *)
Post(i, n) ==
    [slug |-> i,
     title |-> [titleOf |-> i],
     description |-> [descriptionOf |-> i],
     date |-> n - i + 1,
     category |-> IF i % 2 = 0 THEN Some([categoryOf |-> i]) ELSE None,
     content |-> [contentOf |-> i]]

Corpus(n) == [i \in 1..n |-> Post(i, n)]

(* How the dates of a directory's documents run against their file names: *)
(* newest first, oldest first, or oldest first with two documents per day *)
DatePatterns == {"newestFirst", "oldestFirst", "twoPerDay"}

DateOf(i, n, pattern) ==
    CASE pattern = "newestFirst" -> n - i + 1
      [] pattern = "oldestFirst" -> i
      [] pattern = "twoPerDay" -> (i + 1) \div 2

(* A content directory of n documents in file-name order.  With           *)
(* duplicate set, the last document resolves to the slug of the first.    *)
Directory(n, pattern, duplicate) ==
    [i \in 1..n |->
        [Corpus(n)[i] EXCEPT !.date = DateOf(i, n, pattern),
                           !.slug = IF duplicate /\ i = n /\ n > 1 THEN 1 ELSE i]]

(* Directories of every size with the newest document first, and small    *)
(* directories with every date pattern, with and without a duplicate slug *)
Directories ==
    {Directory(n, "newestFirst", FALSE) : n \in 0..MaxPosts}
        \cup {Directory(n, pattern, duplicate) :
                  n \in 0..MaxShuffledPosts,
                  pattern \in DatePatterns,
                  duplicate \in BOOLEAN}

hasDuplicateSlug(docs) ==
    \E i, j \in 1..Len(docs) : i # j /\ docs[i].slug = docs[j].slug

(* A later document with the same slug replaces the earlier one. *)
loadAllLastWriteWins(docs) ==
    [status |-> "ok",
     posts |-> SelectSeq(docs, LAMBDA d :
                  d = docs[CHOOSE i \in 1..Len(docs) :
                             /\ docs[i].slug = d.slug
                             /\ \A j \in (i + 1)..Len(docs) : docs[j].slug # d.slug])]

(* Document Store: every document becomes a Post; two documents with one  *)
(* slug abort the build with DuplicateSlug.                                *)
loadAll(docs) ==
    IF hasDuplicateSlug(docs)
    THEN [status |-> "DuplicateSlug", posts |-> <<>>]
    ELSE [status |-> "ok", posts |-> docs]

(* a comes before b: newer date first, equal dates by slug ascending *)
precedes(a, b) == a.date > b.date \/ (a.date = b.date /\ a.slug < b.slug)

RECURSIVE insertPost(_, _)
insertPost(sorted, p) ==
    IF sorted = <<>> THEN <<p>>
    ELSE IF precedes(p, Head(sorted)) THEN <<p>> \o sorted
    ELSE <<Head(sorted)>> \o insertPost(Tail(sorted), p)

sortedPostsDirectoryOrder(posts) == posts

(* Post Index: the posts in display order *)
RECURSIVE sortedPosts(_)
sortedPosts(posts) ==
    IF posts = <<>> THEN <<>>
    ELSE insertPost(sortedPosts(SubSeq(posts, 1, Len(posts) - 1)), posts[Len(posts)])

(* The posts of the build in display order; 0 posts is the empty content  *)
(* directory.                                                              *)
getAllPosts == corpus

totalPagesFloor(allPosts) == MathFloorDiv(Len(allPosts), SITE_CONFIG.postsPerPage)

totalPages(allPosts) == MathCeilDiv(Len(allPosts), SITE_CONFIG.postsPerPage)

startIndexOffByOne(page) == page * SITE_CONFIG.postsPerPage

startIndex(page) == (page - 1) * SITE_CONFIG.postsPerPage

endIndexInclusive(page) == startIndex(page) + SITE_CONFIG.postsPerPage + 1

endIndex(page) == startIndex(page) + SITE_CONFIG.postsPerPage

(* What Array.prototype.splice(start, end - start) would leave behind *)
allPostsAfterSplice(allPosts, start, end) ==
    slice(allPosts, 0, start) \o slice(allPosts, end, Len(allPosts))

(* slice copies: the array it is called on stays as it was *)
allPostsAfterSlice(allPosts, start, end) == allPosts

getPaginatedPosts(page) ==
    LET allPosts == getAllPosts
        posts == slice(allPosts, startIndex(page), endIndex(page))
    IN [posts |-> posts,
        currentPage |-> page,
        totalPage |-> totalPages(allPosts)]

(* ------------------------------ seo-utils ------------------------------ *)

PathAlphabet == {"/", "page", "2"}

Paths == SeqsUpTo(PathAlphabet, MaxPathLen)

MetaPaths == SeqsUpTo(PathAlphabet, MaxMetaPathLen)

normalizedPathAlwaysPrefixed(path) == <<"/">> \o path

normalizedPath(path) == IF startsWithSlash(path) THEN path ELSE <<"/">> \o path

pathWithSlashNoAppend(np) == np

pathWithSlash(np) == IF endsWithSlash(np) THEN np ELSE np \o <<"/">>

getCanonicalUrl(path) == SITE_CONFIG.url \o pathWithSlash(normalizedPath(path))

(* JavaScript truthiness of an optional string / optional array *)
truthyString(o) == o # None /\ o[1] # ""

truthyArrayNonEmpty(o) == o # None /\ o[1] # <<>>

truthyArray(o) == o # None

openGraphUrlBase(canonical) == SITE_CONFIG.url

openGraphUrl(canonical) == canonical

(* The value of `openGraph ? {...} : undefined` *)
openGraphBlock(title, description, canonical, openGraph) ==
    IF openGraph # None
    THEN Some([title |-> title,
               description |-> description,
               url |-> openGraphUrl(canonical),
               siteName |-> SITE_CONFIG.title,
               locale |-> "vi_VN",
               type |-> IF truthyString(openGraph[1].type)
                        THEN openGraph[1].type[1] ELSE "website",
               images |-> IF truthyArray(openGraph[1].images)
                          THEN openGraph[1].images ELSE None,
               publishedTime |-> IF truthyString(openGraph[1].publishedTime)
                                 THEN openGraph[1].publishedTime ELSE None,
               authors |-> IF truthyArray(openGraph[1].authors)
                           THEN openGraph[1].authors ELSE None])
    ELSE None

twitterBlockAbsent(title, description) == None

twitterBlock(title, description) ==
    Some([card |-> "summary", title |-> title, description |-> description])

createMetadata(options) ==
    LET title == options.title
        description == options.description
        path == options.path
        openGraph == options.openGraph
        canonical == getCanonicalUrl(path)
    IN [title |-> title,
        description |-> description,
        alternates |-> [canonical |-> canonical],
        openGraph |-> openGraphBlock(title, description, canonical, openGraph),
        twitter |-> twitterBlock(title, description)]

(* The social payloads a caller can pass as options.openGraph *)
OpenGraphPayloads ==
    [type : {None, Some("website"), Some("article")},
     images : {None, Some(<<>>), Some(<<"/og.png">>)},
     publishedTime : {None, Some(""), Some("2025-01-15")},
     authors : {None, Some(<<"Long Nguyen">>)}]

MetadataOptions ==
    [title : {"Page 2"},
     description : {"Personal blog by Long Nguyen"},
     path : MetaPaths,
     openGraph : {None} \cup {Some(p) : p \in OpenGraphPayloads}]

(* ------------------------- app/page/[pageNum] ------------------------- *)

Digits == {"0", "1", "2", "3", "4", "5", "6", "7", "8", "9"}

DigitValue(c) ==
    CASE c = "0" -> 0 [] c = "1" -> 1 [] c = "2" -> 2 [] c = "3" -> 3
      [] c = "4" -> 4 [] c = "5" -> 5 [] c = "6" -> 6 [] c = "7" -> 7
      [] c = "8" -> 8 [] c = "9" -> 9

DigitChar(d) ==
    CASE d = 0 -> "0" [] d = 1 -> "1" [] d = 2 -> "2" [] d = 3 -> "3"
      [] d = 4 -> "4" [] d = 5 -> "5" [] d = 6 -> "6" [] d = 7 -> "7"
      [] d = 8 -> "8" [] d = 9 -> "9"

WhiteSpace == {" "}

RECURSIVE DigitsValue(_)
DigitsValue(s) ==
    IF s = <<>> THEN 0
    ELSE DigitsValue(SubSeq(s, 1, Len(s) - 1)) * 10 + DigitValue(s[Len(s)])

(* String(n) for an integer n: decimal digits, most significant first *)
RECURSIVE String(_)
String(n) ==
    IF n < 0 THEN <<"-">> \o String(0 - n)
    ELSE IF n < 10 THEN <<DigitChar(n)>>
    ELSE String(n \div 10) \o <<DigitChar(n % 10)>>

(* parseInt(s, 10): skip leading white space, take an optional sign, then *)
(* the longest run of decimal digits; NaN when that run is empty.  What   *)
(* follows the digits is ignored.                                         *)
parseInt(s) ==
    LET ws == CHOOSE k \in 0..Len(s) :
                  /\ \A i \in 1..k : s[i] \in WhiteSpace
                  /\ (k < Len(s) => s[k + 1] \notin WhiteSpace)
        S == SubSeq(s, ws + 1, Len(s))
        signed == Len(S) > 0 /\ S[1] \in {"+", "-"}
        sign == IF Len(S) > 0 /\ S[1] = "-" THEN -1 ELSE 1
        R == IF signed THEN SubSeq(S, 2, Len(S)) ELSE S
        end == CHOOSE k \in 0..Len(R) :
                   /\ \A i \in 1..k : R[i] \in Digits
                   /\ (k < Len(R) => R[k + 1] \notin Digits)
        Z == SubSeq(R, 1, end)
    IN IF Z = <<>> THEN [nan |-> TRUE, value |-> 0]
       ELSE [nan |-> FALSE, value |-> sign * DigitsValue(Z)]

isNaN(n) == n.nan

ParamAlphabet == {"0", "1", "2", "3", "5", "-", ".", "a"}

PageNums == SeqsUpTo(ParamAlphabet, MaxParamLen)

(* notFound() throws, so nothing after it runs. *)
NotFoundOutcome(calls) ==
    [outcome |-> "notFound", paginatorCalls |-> calls, props |-> None]

pageBeyondLastOffByOne(page, totalPage) == page > totalPage + 1

pageBeyondLast(page, totalPage) == page > totalPage

PaginatedPage(pageNum) ==
    LET page == parseInt(pageNum)
    IN IF isNaN(page) \/ page.value < 1
       THEN NotFoundOutcome(<<>>)
       ELSE LET data == getPaginatedPosts(page.value)
            IN IF pageBeyondLast(page.value, data.totalPage)
               THEN NotFoundOutcome(<<page.value>>)
               ELSE [outcome |-> "PostList",
                     paginatorCalls |-> <<page.value>>,
                     props |-> Some(data)]

minPagesNoPlaceholder(totalPage) == Max(totalPage - 1, 0)

minPages(totalPage) == Max(totalPage - 1, 1)

staticPageNumberFromOne(i) == i + 1

staticPageNumber(i) == i + 2

(* Array.from({ length: minPages }, (_, i) => ...) with i = 0..minPages-1 *)
generateStaticParams ==
    LET totalPage == getPaginatedPosts(1).totalPage
    IN [k \in 1..minPages(totalPage) |->
            [pageNum |-> String(staticPageNumber(k - 1))]]

(* The metadata record {} has no keys. *)
EmptyMetadata == [k \in {} |-> None]

(* `Page ${page}` *)
pageTitle(page) == <<"Page ">> \o String(page)

(* `${SITE_CONFIG.description} - Page ${page}` *)
pageDescription(page) == <<SITE_CONFIG.description, " - Page ">> \o String(page)

pagePathWithoutPrefix(page) == <<"/">> \o String(page)

(* `/page/${page}` *)
pagePath(page) == <<"/", "page", "/">> \o String(page)

generateMetadata(pageNum) ==
    LET page == parseInt(pageNum)
    IN IF isNaN(page) \/ page.value < 1
       THEN EmptyMetadata
       ELSE createMetadata([title |-> pageTitle(page.value),
                            description |-> pageDescription(page.value),
                            path |-> pagePath(page.value),
                            openGraph |-> None])

(* ------------------------------ app/page ------------------------------- *)

titleOnly(metadata, title) == [title |-> title]

(* { ...metadata, title }: the keys of metadata, title replaced or added *)
spreadWithTitle(metadata, title) ==
    [k \in DOMAIN metadata \cup {"title"} |->
        IF k = "title" THEN title ELSE metadata[k]]

HomeGenerateMetadata ==
    LET metadata == createMetadata([title |-> SITE_CONFIG.title,
                                    description |-> SITE_CONFIG.description,
                                    path |-> <<"/">>,
                                    openGraph |-> None])
    IN spreadWithTitle(metadata, [absolute |-> SITE_CONFIG.title])

(* Home renders the PostList of page 1 whatever the paginator returned. *)
Home ==
    LET data == getPaginatedPosts(1)
    IN [outcome |-> "PostList", paginatorCalls |-> <<1>>, props |-> Some(data)]

(* --------------------------- app/posts/[slug] -------------------------- *)

(* The first post of the index with this slug, or null *)
getPostBySlug(slug) ==
    IF \E i \in 1..Len(getAllPosts) : getAllPosts[i].slug = slug
    THEN LET first == CHOOSE i \in 1..Len(getAllPosts) :
                          /\ getAllPosts[i].slug = slug
                          /\ \A j \in 1..(i - 1) : getAllPosts[j].slug # slug
         IN Some(getAllPosts[first])
    ELSE None

getAllPostSlugs == [i \in 1..Len(getAllPosts) |-> getAllPosts[i].slug]

(* Slugs a route can be asked for: those of the corpus and unknown ones *)
SlugInputs == 0..(MaxPosts + 1)

(* The JSX after the guard reads post.title, post.date and post.content;  *)
(* reading a property of null throws a TypeError at the first access.     *)
renderArticle(post) ==
    IF post = None
    THEN [outcome |-> "TypeError", fieldsRead |-> {"title"}, article |-> None]
    ELSE [outcome |-> "article",
          fieldsRead |-> {"title", "date", "content"},
          article |-> Some([title |-> post[1].title,
                            dateTime |-> post[1].date,
                            content |-> post[1].content])]

postMissingNever(post) == FALSE

postMissingAlways(post) == TRUE

(* !post *)
postMissing(post) == post = None

PostPage(slug) ==
    LET post == getPostBySlug(slug)
    IN IF postMissing(post)
       THEN [outcome |-> "notFound", fieldsRead |-> {}, article |-> None]
       ELSE renderArticle(post)

PostGenerateStaticParams ==
    LET slugs == getAllPostSlugs
    IN [i \in 1..Len(slugs) |-> [slug |-> slugs[i]]]

PostGenerateMetadataSiteDefaults(slug) ==
    LET post == getPostBySlug(slug)
    IN IF post = None
       THEN [title |-> SITE_CONFIG.title, description |-> SITE_CONFIG.description]
       ELSE [title |-> post[1].title, description |-> post[1].description]

PostGenerateMetadata(slug) ==
    LET post == getPostBySlug(slug)
    IN IF post = None
       THEN EmptyMetadata
       ELSE [title |-> post[1].title, description |-> post[1].description]

(* ------------------------------- sitemap ------------------------------- *)

(* What Array.prototype.reverse() would leave behind *)
allPostsAfterReverse(posts) == [i \in 1..Len(posts) |-> posts[Len(posts) + 1 - i]]

(* map builds a new array: the array it is called on stays as it was *)
allPostsAfterMap(posts) == posts

(* A Date is its time value, counted here in minutes; a post's date (a    *)
(* calendar day, counted in days) parses to UTC midnight of that day.     *)
MinutesPerDay == 1440

(* new Date(post.date) *)
NewDate(date) == date * MinutesPerDay

(* new Date(): the time of the build, at or after midnight of some day *)
BuildTimes == {d * MinutesPerDay + o : d \in 0..MaxBuildDay, o \in {0, 1}}

(* The characters of a slug inside a template literal *)
SlugText(slug) == String(slug)

postLastModifiedNow(post, now) == now

postLastModified(post, now) == NewDate(post.date)

postRoute(post, baseUrl, now) ==
    [url |-> baseUrl \o <<"/", "posts", "/">> \o SlugText(post.slug),
     lastModified |-> postLastModified(post, now),
     changeFrequency |-> "monthly",
     priority |-> "0.8"]

sitemap(now) ==
    LET posts == getAllPosts
        baseUrl == SITE_CONFIG.url
        routes == <<[url |-> baseUrl,
                     lastModified |-> now,
                     changeFrequency |-> "weekly",
                     priority |-> "1"]>>
        postRoutes == [i \in 1..Len(posts) |-> postRoute(posts[i], baseUrl, now)]
    IN routes \o postRoutes

(* ------------------------------ actions -------------------------------- *)

(* Page arguments of a direct call: negative, zero and positive integers *)
PageInputs == (0 - MaxNegPage)..MaxPage

ReaderIds == {1, 2, 3}

ReaderIdle == [op |-> "idle", args |-> <<>>, ret |-> <<>>]

(* A query runs on a loaded corpus, one at a time. *)
Ready == build = "ok" /\ op = "idle"

Init ==
    /\ documents \in Directories
    /\ build = loadAll(documents).status
    /\ corpus = sortedPosts(loadAll(documents).posts)
    /\ envSiteUrl \in EnvSiteUrls
    /\ op = "idle"
    /\ args = <<>>
    /\ ret = <<>>
    /\ readers = [r \in ReaderIds |-> ReaderIdle]

CallGetPaginatedPosts ==
    /\ Ready
    /\ \E page \in PageInputs :
        /\ op' = "getPaginatedPosts"
        /\ args' = [page |-> page]
        /\ ret' = getPaginatedPosts(page)
        /\ corpus' = allPostsAfterSlice(corpus, startIndex(page), endIndex(page))
    /\ UNCHANGED <<envSiteUrl, documents, build, readers>>

CallGetCanonicalUrl ==
    /\ Ready
    /\ \E path \in Paths :
        /\ op' = "getCanonicalUrl"
        /\ args' = [path |-> path]
        /\ ret' = getCanonicalUrl(path)
    /\ UNCHANGED <<loaded, readers>>

CallCreateMetadata ==
    /\ Ready
    /\ \E options \in MetadataOptions :
        /\ op' = "createMetadata"
        /\ args' = options
        /\ ret' = createMetadata(options)
    /\ UNCHANGED <<loaded, readers>>

CallPaginatedPage ==
    /\ Ready
    /\ \E pageNum \in PageNums :
        /\ op' = "PaginatedPage"
        /\ args' = [pageNum |-> pageNum]
        /\ ret' = PaginatedPage(pageNum)
    /\ UNCHANGED <<loaded, readers>>

CallGenerateStaticParams ==
    /\ Ready
    /\ op' = "generateStaticParams"
    /\ args' = <<>>
    /\ ret' = generateStaticParams
    /\ UNCHANGED <<loaded, readers>>

CallGenerateMetadata ==
    /\ Ready
    /\ \E pageNum \in PageNums :
        /\ op' = "generateMetadata"
        /\ args' = [pageNum |-> pageNum]
        /\ ret' = generateMetadata(pageNum)
    /\ UNCHANGED <<loaded, readers>>

CallHomeGenerateMetadata ==
    /\ Ready
    /\ op' = "HomeGenerateMetadata"
    /\ args' = <<>>
    /\ ret' = HomeGenerateMetadata
    /\ UNCHANGED <<loaded, readers>>

CallHome ==
    /\ Ready
    /\ op' = "Home"
    /\ args' = <<>>
    /\ ret' = Home
    /\ corpus' = allPostsAfterSlice(corpus, startIndex(1), endIndex(1))
    /\ UNCHANGED <<envSiteUrl, documents, build, readers>>

CallGetPostBySlug ==
    /\ Ready
    /\ \E slug \in SlugInputs :
        /\ op' = "getPostBySlug"
        /\ args' = [slug |-> slug]
        /\ ret' = getPostBySlug(slug)
    /\ UNCHANGED <<loaded, readers>>

CallPostPage ==
    /\ Ready
    /\ \E slug \in SlugInputs :
        /\ op' = "PostPage"
        /\ args' = [slug |-> slug]
        /\ ret' = PostPage(slug)
    /\ UNCHANGED <<loaded, readers>>

CallPostGenerateStaticParams ==
    /\ Ready
    /\ op' = "PostGenerateStaticParams"
    /\ args' = <<>>
    /\ ret' = PostGenerateStaticParams
    /\ UNCHANGED <<loaded, readers>>

CallPostGenerateMetadata ==
    /\ Ready
    /\ \E slug \in SlugInputs :
        /\ op' = "PostGenerateMetadata"
        /\ args' = [slug |-> slug]
        /\ ret' = PostGenerateMetadata(slug)
    /\ UNCHANGED <<loaded, readers>>

CallSitemap ==
    /\ Ready
    /\ \E now \in BuildTimes :
        /\ op' = "sitemap"
        /\ args' = [now |-> now]
        /\ ret' = sitemap(now)
        /\ corpus' = allPostsAfterMap(corpus)
    /\ UNCHANGED <<envSiteUrl, documents, build, readers>>

(* The build takes the result of the finished call and turns to the next. *)
Return ==
    /\ op # "idle"
    /\ op' = "idle"
    /\ args' = <<>>
    /\ ret' = <<>>
    /\ UNCHANGED <<loaded, readers>>

Next ==
    \/ CallGetPaginatedPosts
    \/ CallGetCanonicalUrl
    \/ CallCreateMetadata
    \/ CallPaginatedPage
    \/ CallGenerateStaticParams
    \/ CallGenerateMetadata
    \/ CallHomeGenerateMetadata
    \/ CallHome
    \/ CallGetPostBySlug
    \/ CallPostPage
    \/ CallPostGenerateStaticParams
    \/ CallPostGenerateMetadata
    \/ CallSitemap
    \/ Return

Spec == Init /\ [][Next]_vars

(* ------------------------- concurrent readers -------------------------- *)

(* Several readers query one loaded corpus.  Each query is a synchronous  *)
(* function, so it runs to its return without another reader's code in    *)
(* between; the readers' queries interleave in any order.                 *)

ReaderDirectories ==
    {Directory(n, "newestFirst", FALSE) : n \in {0, 1, postsPerPage + 1}}
        \cup {Directory(3, "twoPerDay", FALSE)}

ReaderPages == {1, 2}

ReaderSlugs == {0, 1, 2}

ReaderPaths == {<<>>, <<"/">>, <<"page">>, <<"/", "page", "/">>}

InitReaders ==
    /\ documents \in ReaderDirectories
    /\ build = loadAll(documents).status
    /\ corpus = sortedPosts(loadAll(documents).posts)
    /\ envSiteUrl \in EnvSiteUrls
    /\ op = "idle"
    /\ args = <<>>
    /\ ret = <<>>
    /\ readers = [r \in ReaderIds |-> ReaderIdle]

ReaderReady(r) == build = "ok" /\ readers[r].op = "idle"

Answered(r, name, arguments, value) ==
    readers' = [readers EXCEPT ![r] =
                   [op |-> name, args |-> arguments, ret |-> value]]

ReaderGetPaginatedPosts(r) ==
    /\ ReaderReady(r)
    /\ \E page \in ReaderPages :
        /\ Answered(r, "getPaginatedPosts", [page |-> page], getPaginatedPosts(page))
        /\ corpus' = allPostsAfterSlice(corpus, startIndex(page), endIndex(page))
    /\ UNCHANGED <<envSiteUrl, documents, build, op, args, ret>>

ReaderGetPostBySlug(r) ==
    /\ ReaderReady(r)
    /\ \E slug \in ReaderSlugs :
        Answered(r, "getPostBySlug", [slug |-> slug], getPostBySlug(slug))
    /\ UNCHANGED <<loaded, op, args, ret>>

ReaderGetCanonicalUrl(r) ==
    /\ ReaderReady(r)
    /\ \E path \in ReaderPaths :
        Answered(r, "getCanonicalUrl", [path |-> path], getCanonicalUrl(path))
    /\ UNCHANGED <<loaded, op, args, ret>>

ReaderReturn(r) ==
    /\ readers[r].op # "idle"
    /\ readers' = [readers EXCEPT ![r] = ReaderIdle]
    /\ UNCHANGED <<loaded, op, args, ret>>

NextReaders ==
    \E r \in ReaderIds :
        \/ ReaderGetPaginatedPosts(r)
        \/ ReaderGetPostBySlug(r)
        \/ ReaderGetCanonicalUrl(r)
        \/ ReaderReturn(r)

SpecReaders == InitReaders /\ [][NextReaders]_vars

(* ------------------------------ properties ----------------------------- *)

(* The least k with k * s >= n, i.e. ceil(n / s) *)
CeilOf(n, s) == CHOOSE k \in 0..n : k * s >= n /\ (k > 0 => (k - 1) * s < n)

Called(name) == op = name

(* C1: for a corpus of N posts, getPaginatedPosts(page).totalPage equals   *)
(* max(1, ceil(N / pageSize)); in particular it is 1 when N = 0.           *)
C1_TotalPageIsCeilFlooredAtOne ==
    Called("getPaginatedPosts") =>
        ret.totalPage = Max(1, CeilOf(Len(corpus), postsPerPage))

(* C2: for every page >= 1 the returned posts are exactly the ordered      *)
(* posts from index (page-1)*pageSize up to but excluding that index plus  *)
(* pageSize, in the same order, and empty when (page-1)*pageSize >= N.     *)
C2_PageIsContiguousSlice ==
    Called("getPaginatedPosts") /\ args.page >= 1 =>
        LET N == Len(corpus)
            first == (args.page - 1) * postsPerPage
            n == IF first >= N THEN 0 ELSE Min(postsPerPage, N - first)
        IN /\ Len(ret.posts) = n
           /\ \A i \in 1..n : ret.posts[i] = corpus[first + i]

C2_Witness ==
    /\ Called("getPaginatedPosts")
    /\ Len(corpus) = 25
    /\ args.page = 2
    /\ Len(ret.posts) = 10
    /\ ret.posts[1] = corpus[11]
    /\ ret.posts[10] = corpus[20]

(* C3: for every page > totalPage the call returns an empty posts list and *)
(* the same totalPage as page 1 returns; with 25 posts and page size 10,   *)
(* page 4 gives no posts and totalPage = 3.                                *)
C3_BeyondLastPageIsEmpty ==
    Called("getPaginatedPosts") /\ args.page > ret.totalPage =>
        /\ ret.posts = <<>>
        /\ ret.totalPage = getPaginatedPosts(1).totalPage
        /\ (Len(corpus) = 25 /\ args.page = 4 => ret.totalPage = 3)

C3_Witness ==
    /\ Called("getPaginatedPosts")
    /\ Len(corpus) = 25
    /\ args.page = 4
    /\ ret.posts = <<>>
    /\ ret.totalPage = 3

(* C4: for every corpus and every page, the returned posts list has at     *)
(* most pageSize elements.                                                  *)
C4_PageLengthAtMostPageSize ==
    Called("getPaginatedPosts") => Len(ret.posts) <= postsPerPage

C4_Witness ==
    /\ Called("getPaginatedPosts")
    /\ Len(corpus) > postsPerPage
    /\ Len(ret.posts) = postsPerPage

NoLeadingOrTrailingSlash(p) == ~startsWithSlash(p) /\ ~endsWithSlash(p)

SpellingsAgree(p) ==
    /\ ret = getCanonicalUrl(p)
    /\ ret = getCanonicalUrl(<<"/">> \o p)
    /\ ret = getCanonicalUrl(p \o <<"/">>)
    /\ ret = getCanonicalUrl(<<"/">> \o p \o <<"/">>)

C6_CanonicalUrlShape ==
    Called("getCanonicalUrl") =>
        LET path == args.path
            pre == IF startsWithSlash(path) THEN <<>> ELSE <<"/">>
            suf == IF endsWithSlash(pre \o path) THEN <<>> ELSE <<"/">>
        IN /\ ret = SITE_CONFIG.url \o pre \o path \o suf
           /\ (envSiteUrl = ExampleUrl /\ path = <<"/", "page", "/", "2">> =>
                 ret = <<"https:", "/", "/", "example.com",
                         "/", "page", "/", "2", "/">>)
           /\ (envSiteUrl = ExampleUrl /\ path = <<"/">> =>
                 ret = <<"https:", "/", "/", "example.com", "/">>)

C6_Witness ==
    /\ Called("getCanonicalUrl")
    /\ envSiteUrl = ExampleUrl
    /\ args.path = <<"/", "page", "/", "2">>
    /\ ret = <<"https:", "/", "/", "example.com", "/", "page", "/", "2", "/">>

(* C7: createMetadata returns an Open Graph block if and only if the       *)
(* openGraph payload is supplied, and the block's url equals the record's  *)
(* alternates.canonical.                                                    *)
C7_OpenGraphIffPayload ==
    Called("createMetadata") =>
        /\ (ret.openGraph # None) <=> (args.openGraph # None)
        /\ (ret.openGraph # None =>
                ret.openGraph[1].url = ret.alternates.canonical)

C7_Witness ==
    /\ Called("createMetadata")
    /\ args.openGraph # None
    /\ args.path = <<"page">>
    /\ ret.openGraph # None
    /\ ret.openGraph[1].url = SITE_CONFIG.url \o <<"/", "page", "/">>

CarriesTitleDescriptionCanonical ==
    /\ ret.title = args.title
    /\ ret.description = args.description
    /\ ret.alternates = [canonical |-> getCanonicalUrl(args.path)]

IsDecimalOf(s, n) ==
    /\ Len(s) >= 1
    /\ \A i \in 1..Len(s) : s[i] \in Digits
    /\ (Len(s) > 1 => s[1] # "0")
    /\ parseInt(s) = [nan |-> FALSE, value |-> n]

(* C9: generateStaticParams enumerates exactly the pages 2..totalPage, as  *)
(* decimal strings in ascending order, when totalPage >= 2, and exactly    *)
(* the one placeholder page 2 when totalPage <= 1 (empty corpus included). *)
C9_StaticParamsEnumeration ==
    Called("generateStaticParams") =>
        LET totalPage == CeilOf(Len(corpus), postsPerPage)
        IN /\ (totalPage >= 2 =>
                 /\ Len(ret) = totalPage - 1
                 /\ \A k \in 1..Len(ret) : IsDecimalOf(ret[k].pageNum, k + 1))
           /\ (totalPage <= 1 => ret = <<[pageNum |-> <<"2">>]>>)

C9_Witness ==
    /\ Called("generateStaticParams")
    /\ Len(corpus) = 25
    /\ ret = <<[pageNum |-> <<"2">>], [pageNum |-> <<"3">>]>>

(* The route parameter spells a positive integer in decimal digits. *)
DenotesPositiveInteger(s) ==
    /\ Len(s) >= 1
    /\ \A i \in 1..Len(s) : s[i] \in Digits
    /\ \E i \in 1..Len(s) : s[i] # "0"

(* C10: for every pageNum that does not denote a positive integer          *)
(* (non-numeric, zero, negative, "2.5", "2abc") PaginatedPage signals      *)
(* not-found before the paginator is invoked and renders no PostList.      *)
C10_InvalidPageNumNeverReachesPaginator ==
    Called("PaginatedPage") /\ ~DenotesPositiveInteger(args.pageNum) =>
        /\ ret.outcome = "notFound"
        /\ ret.paginatorCalls = <<>>
        /\ ret.props = None

InCorpus(slug) == \E i \in 1..Len(corpus) : corpus[i].slug = slug

(* C11: for every valid page number PaginatedPage signals not-found        *)
(* whenever page > totalPage, and renders a PostList only when             *)
(* 1 <= page <= totalPage.                                                  *)
C11_NotFoundBeyondTotalPage ==
    Called("PaginatedPage") /\ DenotesPositiveInteger(args.pageNum) =>
        LET page == DigitsValue(args.pageNum)
            totalPage == CeilOf(Len(corpus), postsPerPage)
        IN /\ (page > totalPage => ret.outcome = "notFound")
           /\ (page > Max(1, totalPage) => ret.outcome = "notFound")
           /\ (ret.outcome = "PostList" =>
                 /\ 1 <= page /\ page <= totalPage
                 /\ ret.props[1].currentPage = page)
           /\ ret.outcome \in {"notFound", "PostList"}

C11_Witness ==
    /\ Called("PaginatedPage")
    /\ Len(corpus) = 25
    /\ args.pageNum = <<"3">>
    /\ ret.outcome = "PostList"
    /\ Len(ret.props[1].posts) = 5

(* C12: getPostBySlug on a slug that is not in the corpus returns null     *)
(* instead of throwing, and PostPage turns that absence into not-found     *)
(* without reading any field of the missing post.                           *)
C12_UnknownSlugIsNotFound ==
    /\ (Called("getPostBySlug") /\ ~InCorpus(args.slug) => ret = None)
    /\ (Called("PostPage") /\ ~InCorpus(args.slug) =>
            /\ ret.outcome = "notFound"
            /\ ret.fieldsRead = {}
            /\ ret.article = None)

C12_Witness ==
    /\ Called("PostPage")
    /\ Len(corpus) = 3
    /\ args.slug = 4
    /\ ret.outcome = "notFound"

C14_EmptyMetadataIffNotFound ==
    Called("PostGenerateMetadata") =>
        /\ (DOMAIN ret = {}) <=> ~InCorpus(args.slug)
        /\ (DOMAIN ret = {}) <=> (PostPage(args.slug).outcome = "notFound")
        /\ (DOMAIN ret # {} => DOMAIN ret = {"title", "description"})

C14_Witness ==
    /\ Called("PostGenerateMetadata")
    /\ Len(corpus) = 3
    /\ args.slug = 0
    /\ DOMAIN ret = {}

(* url names the route of path (given with a leading and without a        *)
(* trailing slash; the root is the empty path), with or without the       *)
(* trailing slash.                                                        *)
IsRouteUrl(url, path) ==
    \/ url = SITE_CONFIG.url \o path
    \/ url = SITE_CONFIG.url \o path \o <<"/">>

EntriesFor(path) == {i \in 1..Len(ret) : IsRouteUrl(ret[i].url, path)}

PageRoute(k) == <<"/", "page", "/">> \o String(k)

PostRoute(post) == <<"/", "posts", "/">> \o SlugText(post.slug)

(* C15: the sitemap has exactly one entry for the root index route, for    *)
(* every paginated index route from page 2 through totalPage and for       *)
(* every post route (category routes are left out of the count, which     *)
(* only weakens the statement), and no two entries share a URL.            *)
C15_SitemapCoversEveryRouteOnce ==
    Called("sitemap") =>
        LET totalPage == Max(1, CeilOf(Len(corpus), postsPerPage))
        IN /\ Cardinality(EntriesFor(<<>>)) = 1
           /\ \A k \in 2..totalPage : Cardinality(EntriesFor(PageRoute(k))) = 1
           /\ \A i \in 1..Len(corpus) :
                  Cardinality(EntriesFor(PostRoute(corpus[i]))) = 1
           /\ Len(ret) = 1 + (totalPage - 1) + Len(corpus)
           /\ \A i, j \in 1..Len(ret) : ret[i].url = ret[j].url => i = j

(* C16: every URL emitted by sitemap() equals the canonical URL that       *)
(* getCanonicalUrl produces for the same route (root "/",                  *)
(* "/posts/{slug}"), so every sitemap URL ends with a slash.               *)
C16_SitemapUrlsAreCanonical ==
    Called("sitemap") =>
        /\ ret[1].url = getCanonicalUrl(<<"/">>)
        /\ \A i \in 1..Len(corpus) :
               ret[i + 1].url = getCanonicalUrl(PostRoute(corpus[i]))
        /\ \A i \in 1..Len(ret) : endsWithSlash(ret[i].url)

(* C17: in the sitemap the lastModified of each post entry is that post's  *)
(* date, and the lastModified of the root index entry is the build         *)
(* timestamp.                                                               *)
C17_SitemapLastModified ==
    Called("sitemap") =>
        /\ Len(ret) = Len(corpus) + 1
        /\ ret[1].lastModified = args.now
        /\ \A i \in 1..Len(corpus) :
               /\ IsRouteUrl(ret[i + 1].url, PostRoute(corpus[i]))
               /\ ret[i + 1].lastModified \div MinutesPerDay = corpus[i].date
               /\ ret[i + 1].lastModified % MinutesPerDay = 0

C17_Witness ==
    /\ Called("sitemap")
    /\ Len(corpus) = 3
    /\ args.now = MinutesPerDay + 1
    /\ ret[1].lastModified = MinutesPerDay + 1
    /\ ret[2].lastModified = 3 * MinutesPerDay
    /\ ret[4].lastModified = MinutesPerDay

C21_PostCollectionUnchanged ==
    [][/\ getAllPosts' = getAllPosts
       /\ Len(getAllPosts') = Len(getAllPosts)
       /\ \A i \in 1..Len(getAllPosts) :
              /\ DOMAIN getAllPosts'[i] =
                    {"slug", "title", "description", "date", "category", "content"}
              /\ \A f \in DOMAIN getAllPosts[i] :
                     getAllPosts'[i][f] = getAllPosts[i][f]]_vars

C21_Witness ==
    /\ Called("sitemap")
    /\ Len(documents) = 6
    /\ documents[1].date < documents[6].date
    /\ documents[2].category # None
    /\ Len(ret) = 7
    /\ getAllPosts = sortedPosts(documents)
    /\ getAllPosts[1] = documents[6]

(* C22: paginated-page generateMetadata returns the empty metadata record  *)
(* for every pageNum for which PaginatedPage renders not-found             *)
(* (unparseable, below 1, or greater than totalPage, the placeholder page  *)
(* 2 of a small corpus included).                                          *)
C22_EmptyMetadataForEveryNotFoundPage ==
    Called("generateMetadata")
        /\ PaginatedPage(args.pageNum).outcome = "notFound" =>
        DOMAIN ret = {}

Enumerated(n) == \E k \in 1..Len(ret) : IsDecimalOf(ret[k].pageNum, n)

(* C23: a page number n >= 2 is enumerated by generateStaticParams and     *)
(* rendered by PaginatedPage as a PostList if and only if                  *)
(* 2 <= n <= totalPage; an enumerated page renders not-found only if it is *)
(* the single placeholder page 2 of a corpus with totalPage <= 1, and that *)
(* placeholder is enumerated for every such corpus.                        *)
C23_StaticRoutesMatchPagination ==
    Called("generateStaticParams") =>
        LET totalPage == CeilOf(Len(corpus), postsPerPage)
            Renders(n) == PaginatedPage(String(n)).outcome = "PostList"
        IN /\ \A n \in 2..(totalPage + 2) :
                  (Enumerated(n) /\ Renders(n)) <=> (2 <= n /\ n <= totalPage)
           /\ \A k \in 1..Len(ret) :
                  PaginatedPage(ret[k].pageNum).outcome # "PostList" =>
                      /\ totalPage <= 1
                      /\ Len(ret) = 1
                      /\ ret[k].pageNum = <<"2">>
                      /\ PaginatedPage(ret[k].pageNum).outcome = "notFound"
           /\ (totalPage <= 1 => Enumerated(2) /\ ~Renders(2))

C23_Witness ==
    /\ Called("generateStaticParams")
    /\ Len(corpus) = 2 * postsPerPage + 1
    /\ Len(ret) = 2
    /\ PaginatedPage(ret[2].pageNum).outcome = "PostList"
    /\ Len(PaginatedPage(ret[2].pageNum).props[1].posts) = 1

C25_HomeMetadataReplacesOnlyTitle ==
    Called("HomeGenerateMetadata") =>
        LET built == createMetadata([title |-> SITE_CONFIG.title,
                                     description |-> SITE_CONFIG.description,
                                     path |-> <<"/">>,
                                     openGraph |-> None])
        IN /\ DOMAIN ret = DOMAIN built
           /\ ret.title = [absolute |-> "Long Nguyen blog"]
           /\ ret.description = "Personal blog by Long Nguyen"
           /\ ret.alternates.canonical = SITE_CONFIG.url \o <<"/">>
           /\ \A k \in DOMAIN built \ {"title"} : ret[k] = built[k]

C25_Witness ==
    /\ Called("HomeGenerateMetadata")
    /\ envSiteUrl = ExampleUrl
    /\ ret.title = [absolute |-> "Long Nguyen blog"]
    /\ ret.alternates.canonical = <<"https:", "/", "/", "example.com", "/">>
    /\ ret.twitter # None

(* The block's type is the payload's, "website" when the payload has none *)
TypeFromPayload(block, payload) ==
    block.type = IF payload.type # None THEN payload.type[1] ELSE "website"

(* C26 (as stated): when a social payload is supplied, the Open Graph      *)
(* block's type is the payload's type, or "website" if the payload gives   *)
(* none, and each of images, publishedTime and authors appears in the      *)
(* block exactly when the payload supplies it, with the supplied value.    *)
C26_BlockCarriesEverySuppliedField ==
    Called("createMetadata") /\ args.openGraph # None =>
        LET payload == args.openGraph[1]
            block == ret.openGraph[1]
        IN /\ ret.openGraph # None
           /\ TypeFromPayload(block, payload)
           /\ block.images = payload.images
           /\ block.publishedTime = payload.publishedTime
           /\ block.authors = payload.authors

(* C26 (amended): when a social payload is supplied, the Open Graph        *)
(* block's type is the payload's type, or "website" if the payload gives   *)
(* none; images and authors appear exactly when the payload supplies them  *)
(* (an empty list included), and publishedTime appears exactly when the    *)
(* payload supplies a non-empty one; each with the supplied value.         *)
C26_BlockCarriesEveryTruthyField ==
    Called("createMetadata") /\ args.openGraph # None =>
        LET payload == args.openGraph[1]
            block == ret.openGraph[1]
        IN /\ ret.openGraph # None
           /\ TypeFromPayload(block, payload)
           /\ block.images = payload.images
           /\ block.publishedTime =
                 IF payload.publishedTime = Some("") THEN None
                 ELSE payload.publishedTime
           /\ block.authors = payload.authors

C26_Witness ==
    /\ Called("createMetadata")
    /\ args.openGraph =
          Some([type |-> Some("article"),
                images |-> Some(<<>>),
                publishedTime |-> Some("2025-01-15"),
                authors |-> None])
    /\ ret.openGraph[1].type = "article"
    /\ ret.openGraph[1].images = Some(<<>>)
    /\ ret.openGraph[1].publishedTime = Some("2025-01-15")
    /\ ret.openGraph[1].authors = None

(* The posts of pages 1..k, one page after the other *)
RECURSIVE PagesUpTo(_)
PagesUpTo(k) ==
    IF k = 0 THEN <<>> ELSE PagesUpTo(k - 1) \o getPaginatedPosts(k).posts

(* C27: for every corpus of N >= 1 posts, the posts of pages 1..totalPage  *)
(* put one after the other are exactly the full ordered post sequence, so  *)
(* every post is on exactly one page, no page in 1..totalPage is empty and *)
(* every page before the last has exactly pageSize posts.                  *)
C27_PagesPartitionCorpus ==
    Called("getPaginatedPosts") /\ Len(corpus) >= 1 =>
        LET totalPage == ret.totalPage
            posts(k) == getPaginatedPosts(k).posts
        IN /\ totalPage >= 1
           /\ PagesUpTo(totalPage) = corpus
           /\ \A i \in 1..Len(corpus) :
                  Cardinality({<<k, j>> \in (1..totalPage) \X (1..postsPerPage) :
                                  j <= Len(posts(k)) /\ posts(k)[j] = corpus[i]}) = 1
           /\ \A k \in 1..totalPage : posts(k) # <<>>
           /\ \A k \in 1..(totalPage - 1) : Len(posts(k)) = postsPerPage
           /\ (args.page \in 1..totalPage => ret.posts = posts(args.page))

C27_Witness ==
    /\ Called("getPaginatedPosts")
    /\ Len(corpus) = 2 * postsPerPage + 1
    /\ args.page = 3
    /\ ret.totalPage = 3
    /\ ret.posts = <<corpus[2 * postsPerPage + 1]>>
    /\ PagesUpTo(3) = corpus

Rendered(name) == Called(name) /\ ret.outcome = "PostList"

(* C28: every PostList that is rendered, by Home (page 1) or by            *)
(* PaginatedPage, receives props with 1 <= currentPage <= totalPage, for   *)
(* every corpus, the empty corpus included.                                *)
C28_PostListPropsInRange ==
    Rendered("Home") \/ Rendered("PaginatedPage") =>
        /\ ret.props # None
        /\ 1 <= ret.props[1].currentPage
        /\ ret.props[1].currentPage <= ret.props[1].totalPage

(* The number of "/" tokens at the end of s *)
TrailingSlashes(s) ==
    CHOOSE k \in 0..Len(s) :
        /\ \A i \in (Len(s) - k + 1)..Len(s) : s[i] = "/"
        /\ (k < Len(s) => s[Len(s) - k] # "/")

LeadingSlashes(s) ==
    CHOOSE k \in 0..Len(s) :
        /\ \A i \in 1..k : s[i] = "/"
        /\ (k < Len(s) => s[k + 1] # "/")

(* s without the "/" tokens at its start and its end *)
Trimmed(s) ==
    IF LeadingSlashes(s) = Len(s) THEN <<>>
    ELSE SubSeq(s, LeadingSlashes(s) + 1, Len(s) - TrailingSlashes(s))

(* C29: the result of getCanonicalUrl is in normal form for every input    *)
(* path (the empty path and paths that begin or end with one or more "/"   *)
(* included) and every configured base URL (with or without a trailing     *)
(* "/"): exactly one "/" separates the base URL from the path and the      *)
(* result ends with exactly one "/".                                       *)
C29_CanonicalUrlInNormalForm ==
    Called("getCanonicalUrl") =>
        LET base == Trimmed(SITE_CONFIG.url)
            path == Trimmed(args.path)
        IN /\ TrailingSlashes(ret) = 1
           /\ ret = IF path = <<>> THEN base \o <<"/">>
                    ELSE base \o <<"/">> \o path \o <<"/">>

====
